---- MODULE Spec2Model ----
(***************************************************************************)
(* A model of the roundtable orchestrator (src/roundtable.py) and of the   *)
(* endpoint binding it is constructed from (src/llm.py).                   *)
(*                                                                         *)
(* Python values are represented as follows.                               *)
(*   str            a TLA+ string; f-strings are built with \o             *)
(*   None           an Optional value is a sequence of length <= 1:        *)
(*                  None is << >> and a value v is << v >>                 *)
(*   list           a sequence                                             *)
(*   dict, object   a record with the keys / attributes as fields          *)
(*   "\n".join(xs)  the string is represented by the sequence xs of the    *)
(*                  parts that are joined; "" is << >>                     *)
(***************************************************************************)
EXTENDS Integers, Sequences, FiniteSets, TLC

VARIABLES
    env,    \* os.environ after load_dotenv: variable name -> value or Unset
    rt,     \* the Roundtable object: construction state and attributes
    calls,  \* the activations of Roundtable.discuss, in the order started
    sent,   \* the model calls issued so far (llm.invoke), in order
    ran,    \* the tool functions called so far (tool.func), in order
    out     \* the outcome of the last export_discussion call

vars == <<env, rt, calls, sent, ran, out>>

-----------------------------------------------------------------------------
(* Bounds of the model *)

MaxParticipants == 2
MaxRounds == 2
MaxCalls == 2

(* What a model endpoint may answer, and what a caller may ask. *)
Texts == {"", "X"}
Questions == {"Q"}
Temperatures == {"0.7"}
Formats == {"markdown", "json", "text", "xml"}

-----------------------------------------------------------------------------
(* Optional values *)

None == << >>
Some(v) == << v >>
IsNone(o) == o = << >>
The(o) == o[1]

-----------------------------------------------------------------------------
(* The environment: src/llm.py reads it with os.getenv *)

Unset == "<unset>"

Key(name, i) == <<name, i>>

NumberedNames == {"MODEL", "API_KEY", "BASE_URL"}
PlainNames == {"DEFAULT_MODEL", "DEFAULT_API_KEY", "DEFAULT_BASE_URL",
               "MODERATOR_MODEL", "MODERATOR_API_KEY", "MODERATOR_BASE_URL"}

EnvKeys == (NumberedNames \X (1..MaxParticipants)) \cup (PlainNames \X {0})

(* The value a variable has when it is set: one distinct string each. *)
ValueOf(k) == IF k[2] = 0 THEN "val:" \o k[1]
              ELSE "val:" \o k[1] \o ToString(k[2])

Getenv(e, k, default) ==
    IF k \in DOMAIN e /\ e[k] /= Unset THEN e[k] ELSE default

Truthy(v) == v /= Unset /\ v /= ""

PyOr(a, b) == IF Truthy(a) THEN a ELSE b

OpenAIBase == "https://api.openai.com/v1"
Gpt4o == "gpt-4o"

-----------------------------------------------------------------------------
(* src/llm.py *)

ApiKeyError == "ValueError: API key not provided"
NoParticipantsError == "ValueError: No participants configured"

NoClient == [model |-> "", api_key |-> "", base_url |-> "", temperature |-> ""]

(* get_llm_client: the client, or the ValueError raised without a key. *)
GetLlmClient(e, model, api_key, base_url, temperature) ==
    LET m == PyOr(model, Getenv(e, Key("DEFAULT_MODEL", 0), Gpt4o))
        k == PyOr(api_key, Getenv(e, Key("DEFAULT_API_KEY", 0), Unset))
        u == PyOr(base_url, Getenv(e, Key("DEFAULT_BASE_URL", 0), OpenAIBase))
    IN  IF ~Truthy(k)
        THEN [ok |-> FALSE, error |-> ApiKeyError, client |-> NoClient]
        ELSE [ok |-> TRUE, error |-> "",
              client |-> [model |-> m, api_key |-> k, base_url |-> u,
                          temperature |-> temperature]]

Label(i) == "Participant " \o ToString(i)

(* The loop goes on past an incomplete entry, to the last index. *)
RECURSIVE NumberedModelsPastGaps(_, _)
NumberedModelsPastGaps(e, i) ==
    LET model == Getenv(e, Key("MODEL", i), Unset)
        api_key == Getenv(e, Key("API_KEY", i), Unset)
        base_url == Getenv(e, Key("BASE_URL", i), OpenAIBase)
    IN  IF i > MaxParticipants THEN << >>
        ELSE (IF ~Truthy(model) \/ ~Truthy(api_key) THEN << >>
              ELSE << [name |-> model, api_key |-> api_key,
                       base_url |-> base_url, label |-> Label(i)] >>)
             \o NumberedModelsPastGaps(e, i + 1)

(* The while loop of get_participant_models, from index i on. *)
RECURSIVE NumberedModels(_, _)
NumberedModels(e, i) ==
    LET model == Getenv(e, Key("MODEL", i), Unset)
        api_key == Getenv(e, Key("API_KEY", i), Unset)
        base_url == Getenv(e, Key("BASE_URL", i), OpenAIBase)
    IN  IF ~Truthy(model) \/ ~Truthy(api_key)
        THEN << >>
        ELSE << [name |-> model, api_key |-> api_key, base_url |-> base_url,
                 label |-> Label(i)] >> \o NumberedModels(e, i + 1)

GetParticipantModels(e) ==
    LET participants == NumberedModels(e, 1)
        default_model == Getenv(e, Key("DEFAULT_MODEL", 0), Unset)
        default_key == Getenv(e, Key("DEFAULT_API_KEY", 0), Unset)
        default_url == Getenv(e, Key("DEFAULT_BASE_URL", 0), OpenAIBase)
    IN  IF participants /= << >> THEN participants
        ELSE IF Truthy(default_model) /\ Truthy(default_key)
        THEN << [name |-> default_model, api_key |-> default_key,
                 base_url |-> default_url, label |-> Label(1)] >>
        ELSE << >>

ModeratorTemperature == "0.3"

(* Without the fallback block: each value falls back on its own. *)
GetModeratorLlmPerValue(e) ==
    GetLlmClient(e, Getenv(e, Key("MODERATOR_MODEL", 0), Unset),
                 Getenv(e, Key("MODERATOR_API_KEY", 0), Unset),
                 Getenv(e, Key("MODERATOR_BASE_URL", 0), Unset),
                 ModeratorTemperature)

GetModeratorLlm(e) ==
    LET model == Getenv(e, Key("MODERATOR_MODEL", 0), Unset)
        api_key == Getenv(e, Key("MODERATOR_API_KEY", 0), Unset)
        base_url == Getenv(e, Key("MODERATOR_BASE_URL", 0), Unset)
    IN  IF ~Truthy(model) \/ ~Truthy(api_key)
        THEN GetLlmClient(e, Getenv(e, Key("DEFAULT_MODEL", 0), Gpt4o),
                          Getenv(e, Key("DEFAULT_API_KEY", 0), Unset),
                          Getenv(e, Key("DEFAULT_BASE_URL", 0), OpenAIBase),
                          ModeratorTemperature)
        ELSE GetLlmClient(e, model, api_key, base_url, ModeratorTemperature)

-----------------------------------------------------------------------------
(* src/tools.py: the tool descriptors AVAILABLE_TOOLS may hold *)

WikipediaTool == [name |-> "wikipedia_search",
                  description |-> "Get information from Wikipedia for general knowledge topics.",
                  func |-> "wikipedia_search"]
ArxivTool == [name |-> "arxiv_search",
              description |-> "Search for academic papers and research on arXiv.",
              func |-> "arxiv_search"]

(* What importing AVAILABLE_TOOLS yields: None when the import raises. *)
ToolImports == {None, Some(<< >>), Some(<<WikipediaTool, ArxivTool>>)}

-----------------------------------------------------------------------------
(* src/roundtable.py: Roundtable.__init__ *)

NewRt == [state |-> "new", error |-> "", max_rounds |-> 0, temperature |-> "",
          moderator_enabled |-> FALSE, tools_enabled |-> FALSE,
          participants |-> << >>, moderator |-> None, tools |-> None]

(* _initialize_participants: the configs, and the first client error. *)
ParticipantOf(e, config, temperature) ==
    [name |-> config.name, label |-> config.label,
     llm |-> GetLlmClient(e, config.name, config.api_key, config.base_url,
                          temperature).client,
     contributions |-> << >>]

InitializeParticipants(e, temperature) ==
    LET configs == GetParticipantModels(e)
    IN  [i \in 1..Len(configs) |-> ParticipantOf(e, configs[i], temperature)]

ParticipantClientsOk(e, temperature) ==
    LET configs == GetParticipantModels(e)
    IN  \A i \in 1..Len(configs) :
            GetLlmClient(e, configs[i].name, configs[i].api_key,
                         configs[i].base_url, temperature).ok

(* The check is left out. *)
NoParticipantsUnchecked(participants) == FALSE

(* The check that ends __init__: True when it raises. *)
NoParticipants(participants) == participants = << >>

(* The object __init__ leaves behind with these arguments; imported is  *)
(* the outcome of importing AVAILABLE_TOOLS.                             *)
Constructed(e, max_rounds, temperature, moderator_enabled, tools_enabled, imported) ==
    LET base == [NewRt EXCEPT !.max_rounds = max_rounds,
                              !.temperature = temperature,
                              !.moderator_enabled = moderator_enabled,
                              !.tools_enabled = tools_enabled]
        participants == InitializeParticipants(e, temperature)
        withP == [base EXCEPT !.participants = participants]
        mod == GetModeratorLlm(e)
        withM == [withP EXCEPT !.moderator =
                     IF moderator_enabled THEN Some(mod.client) ELSE None]
        withT == [withM EXCEPT !.tools =
                     IF tools_enabled THEN imported ELSE None]
    IN  IF ~ParticipantClientsOk(e, temperature)
        THEN [base EXCEPT !.state = "failed", !.error = ApiKeyError]
        ELSE IF moderator_enabled /\ ~mod.ok
        THEN [withP EXCEPT !.state = "failed", !.error = mod.error]
        ELSE IF NoParticipants(participants)
        THEN [withT EXCEPT !.state = "failed", !.error = NoParticipantsError]
        ELSE [withT EXCEPT !.state = "ready"]

(* Roundtable(max_rounds, temperature, moderator_enabled, tools_enabled) *)
Construct(max_rounds) ==
    /\ rt.state = "new"
    /\ \E temperature \in Temperatures,
          moderator_enabled \in BOOLEAN, tools_enabled \in BOOLEAN,
          imported \in ToolImports :
          /\ tools_enabled \/ imported = None
          /\ rt' = Constructed(env, max_rounds, temperature,
                               moderator_enabled, tools_enabled, imported)
    /\ UNCHANGED <<env, calls, sent, ran, out>>

-----------------------------------------------------------------------------
(* src/roundtable.py: the prompts *)

RoundHeader(round_num) == "\n--- Round " \o ToString(round_num) \o " ---"
Entry(contrib) == "\n" \o contrib.participant \o ": " \o contrib.text

(* The same list with the label test left out. *)
RECURSIVE OthersOfUnfiltered(_, _)
OthersOfUnfiltered(contributions, label) ==
    IF contributions = << >> THEN << >>
    ELSE << Entry(Head(contributions)) >>
         \o OthersOfUnfiltered(Tail(contributions), label)

(* The parts a list of contributions adds, own contributions skipped. *)
RECURSIVE OthersOf(_, _)
OthersOf(contributions, label) ==
    IF contributions = << >> THEN << >>
    ELSE LET contrib == Head(contributions)
         IN  (IF contrib.participant /= label THEN << Entry(contrib) >>
              ELSE << >>) \o OthersOf(Tail(contributions), label)

(* The loop over discussion.rounds of _build_context. *)
RECURSIVE RoundHistory(_, _)
RoundHistory(rounds, label) ==
    IF rounds = << >> THEN << >>
    ELSE << RoundHeader(Head(rounds).round_number) >>
         \o OthersOf(Head(rounds).contributions, label)
         \o RoundHistory(Tail(rounds), label)

(* The record's last round is not added again. *)
LatestRoundOmitted(rounds, label) == << >>

(* The "current round" block of _build_context: rounds[-1] once more. *)
LatestRound(rounds, label) ==
    IF rounds /= << >> /\ Len(rounds[Len(rounds)].contributions) > 0
    THEN OthersOf(rounds[Len(rounds)].contributions, label)
    ELSE << >>

BuildContext(discussion, current_participant) ==
    IF discussion.rounds = << >> THEN << >>
    ELSE RoundHistory(discussion.rounds, current_participant.label)
         \o LatestRound(discussion.rounds, current_participant.label)

ParticipantSystem ==
    "You are a thoughtful participant in a roundtable discussion. "
    \o "Your goal is to contribute meaningful insights, build on others' ideas, "
    \o "and help the group reach a well-reasoned conclusion."
ToolsHeading == "\n\nAvailable tools for research:\n"
ToolLine(tool) == "- " \o tool.name \o ": " \o tool.description \o "\n"

ToolsOf(tools) == IF IsNone(tools) THEN << >> ELSE The(tools)

SystemMessage(content) == [role |-> "system", content |-> content]
HumanMessage(content) == [role |-> "human", content |-> content]

CreateParticipantPrompt(tools, question, round_num, context) ==
    LET listed == ToolsOf(tools)
        system_msg ==
            << ParticipantSystem >> \o
            (IF listed /= << >>
             THEN << ToolsHeading >> \o
                  [i \in 1..Len(listed) |-> ToolLine(listed[i])]
             ELSE << >>)
        user_msg ==
            IF round_num = 1
            THEN << "We're discussing: " \o question \o "\n\n",
                    "This is Round " \o ToString(round_num)
                        \o ". Please share your initial thoughts and insights. "
                        \o "Be specific, insightful, and concise (2-4 sentences)." >>
            ELSE << "We're discussing: " \o question \o "\n\n",
                    "This is Round " \o ToString(round_num)
                        \o ". Here's what others have said:\n" >>
                 \o context
                 \o << "\n\nPlease respond by:\n"
                        \o "1. Building on the strongest ideas\n"
                        \o "2. Adding new perspectives or addressing gaps\n"
                        \o "3. Helping move toward a conclusion\n\n"
                        \o "Keep it concise (2-4 sentences)." >>
    IN  << SystemMessage(system_msg), HumanMessage(user_msg) >>

(* The transcript _generate_summary compiles. *)
RECURSIVE AllOf(_)
AllOf(contributions) ==
    IF contributions = << >> THEN << >>
    ELSE << Entry(Head(contributions)) >> \o AllOf(Tail(contributions))

(* Only the last round is compiled. *)
AllContributionsLatest(rounds) ==
    IF rounds = << >> THEN << >>
    ELSE << RoundHeader(rounds[Len(rounds)].round_number) >>
         \o AllOf(rounds[Len(rounds)].contributions)

RECURSIVE AllContributions(_)
AllContributions(rounds) ==
    IF rounds = << >> THEN << >>
    ELSE << RoundHeader(Head(rounds).round_number) >>
         \o AllOf(Head(rounds).contributions)
         \o AllContributions(Tail(rounds))

ModeratorSystem ==
    "You are a skilled moderator synthesizing a roundtable discussion. "
    \o "Your task is to create a clear, balanced summary that captures:\n"
    \o "1. Key insights and agreements\n"
    \o "2. Diverse perspectives\n"
    \o "3. Practical conclusions or recommendations\n"
    \o "Be concise but comprehensive."

SummaryPrompt(discussion) ==
    << SystemMessage(<< ModeratorSystem >>),
       HumanMessage(<< "Question discussed: " \o discussion.question \o "\n\n",
                       "Discussion:\n" >>
                    \o AllContributions(discussion.rounds)
                    \o << "\n\nPlease provide a final summary of this roundtable discussion." >>) >>

-----------------------------------------------------------------------------
(* src/roundtable.py: Roundtable.discuss and _conduct_round *)

NoPrompt == << >>

NewRound(round_num) == [round_number |-> round_num, contributions |-> << >>]

NewDiscussion(question) ==
    [question |-> question, rounds |-> << >>, final_summary |-> None]

(* A round loop that stops one round early: range(1, self.max_rounds). *)
AfterRoundShort(frame, round_num) ==
    IF round_num < rt.max_rounds - 1
    THEN [frame EXCEPT !.pc = "turn", !.round_num = round_num + 1, !.idx = 1,
                       !.round_data = NewRound(round_num + 1)]
    ELSE IF rt.moderator_enabled
    THEN [frame EXCEPT !.pc = "summary"]
    ELSE [frame EXCEPT !.pc = "returned", !.result = Some(frame.discussion)]

(* A round loop that runs one round more: range(1, self.max_rounds + 2). *)
AfterRoundLong(frame, round_num) ==
    IF round_num < rt.max_rounds + 1
    THEN [frame EXCEPT !.pc = "turn", !.round_num = round_num + 1, !.idx = 1,
                       !.round_data = NewRound(round_num + 1)]
    ELSE IF rt.moderator_enabled
    THEN [frame EXCEPT !.pc = "summary"]
    ELSE [frame EXCEPT !.pc = "returned", !.result = Some(frame.discussion)]

(* Where discuss goes once round_num rounds are done. *)
AfterRound(frame, round_num) ==
    IF round_num < rt.max_rounds
    THEN [frame EXCEPT !.pc = "turn", !.round_num = round_num + 1, !.idx = 1,
                       !.round_data = NewRound(round_num + 1)]
    ELSE IF rt.moderator_enabled
    THEN [frame EXCEPT !.pc = "summary"]
    ELSE [frame EXCEPT !.pc = "returned", !.result = Some(frame.discussion)]

(* The record is kept on the instance: a call goes on with the record of *)
(* the call entered before it.                                           *)
EnteredShared(question) ==
    AfterRound([pc |-> "start",
                discussion |-> IF calls = << >> THEN NewDiscussion(question)
                               ELSE [calls[Len(calls)].discussion
                                        EXCEPT !.question = question],
                round_num |-> 0, idx |-> 0, round_data |-> NewRound(0),
                context |-> << >>, prompt |-> NoPrompt,
                response |-> None, result |-> None], 0)

(* The activation of discuss(question) when it reaches the round loop. *)
Entered(question) ==
    AfterRound([pc |-> "start", discussion |-> NewDiscussion(question),
                round_num |-> 0, idx |-> 0, round_data |-> NewRound(0),
                context |-> << >>, prompt |-> NoPrompt,
                response |-> None, result |-> None], 0)

(* discuss is entered: the record is created and the round loop reached. *)
(* Here an orchestrator runs one discuss call.                            *)
StartDiscuss ==
    /\ rt.state = "ready"
    /\ calls = << >>
    /\ \E question \in Questions : calls' = Append(calls, Entered(question))
    /\ UNCHANGED <<env, rt, sent, ran, out>>

(* The threads that call discuss on the one orchestrator. *)
Callers == {"first", "second"}

(* A thread enters discuss while the calls of the others may be running: *)
(* nothing in discuss takes a lock or looks at another activation.       *)
StartConcurrent ==
    /\ rt.state = "ready"
    /\ Len(calls) < Cardinality(Callers)
    /\ \E question \in Questions : calls' = Append(calls, Entered(question))
    /\ UNCHANGED <<env, rt, sent, ran, out>>

(* discuss starts every participant with an empty log. *)
AtEntryCleared(participants) ==
    [i \in DOMAIN participants |->
        [participants[i] EXCEPT !.contributions = << >>]]

(* self.participants when discuss reaches the round loop: discuss assigns *)
(* nothing to it or to a log, so it is as the calls before left it.       *)
AtEntry(participants) == participants

(* The caller calls discuss again once its earlier call has returned or  *)
(* raised.                                                               *)
StartSequential ==
    /\ rt.state = "ready"
    /\ Len(calls) < MaxCalls
    /\ \A c \in DOMAIN calls : calls[c].pc \in {"returned", "raised"}
    /\ \E question \in Questions : calls' = Append(calls, Entered(question))
    /\ rt' = [rt EXCEPT !.participants = AtEntry(@)]
    /\ UNCHANGED <<env, sent, ran, out>>

(* One participant's turn up to the blocking call: context, prompt, invoke. *)
Invoke(c) ==
    /\ calls[c].pc = "turn"
    /\ LET frame == calls[c]
           participant == rt.participants[frame.idx]
           context == BuildContext(frame.discussion, participant)
           prompt == CreateParticipantPrompt(rt.tools, frame.discussion.question,
                                             frame.round_num, context)
       IN  /\ calls' = [calls EXCEPT ![c] = [frame EXCEPT !.pc = "await",
                                                          !.context = context,
                                                          !.prompt = prompt]]
           /\ sent' = Append(sent, [to |-> participant.label, call |-> c,
                                    round |-> frame.round_num])
    /\ UNCHANGED <<env, rt, ran, out>>

(* The contribution a response is stored as. *)
Contribution(participant, text) ==
    [participant |-> participant.label, model |-> participant.name,
     text |-> text]

(* The round dict is appended to the record when it is created, so the  *)
(* record's last round is the one being filled.                          *)
StoredEagerly(frame, participant, text) ==
    LET round_data == [frame.round_data EXCEPT !.contributions =
                          Append(@, Contribution(participant, text))]
        rounds == frame.discussion.rounds
        kept == IF rounds /= << >>
                   /\ rounds[Len(rounds)].round_number = frame.round_num
                THEN SubSeq(rounds, 1, Len(rounds) - 1) ELSE rounds
        stored == [frame EXCEPT !.round_data = round_data,
                                !.response = Some(text),
                                !.discussion.rounds = Append(kept, round_data)]
    IN  IF frame.idx < Len(rt.participants)
        THEN [stored EXCEPT !.pc = "turn", !.idx = frame.idx + 1]
        ELSE AfterRound(stored, frame.round_num)

(* An empty response is not stored in the round. *)
StoredIfNonEmpty(frame, participant, text) ==
    LET round_data == IF text = "" THEN frame.round_data
                      ELSE [frame.round_data EXCEPT !.contributions =
                               Append(@, Contribution(participant, text))]
        stored == [frame EXCEPT !.round_data = round_data,
                                !.response = Some(text)]
    IN  IF frame.idx < Len(rt.participants)
        THEN [stored EXCEPT !.pc = "turn", !.idx = frame.idx + 1]
        ELSE AfterRound([stored EXCEPT !.discussion.rounds =
                            Append(@, round_data)], frame.round_num)

(* The frame after the rest of the turn: the contribution is stored, and *)
(* after the last participant the round is appended to the record.       *)
Stored(frame, participant, text) ==
    LET round_data == [frame.round_data EXCEPT !.contributions =
                          Append(@, Contribution(participant, text))]
        stored == [frame EXCEPT !.round_data = round_data,
                                !.response = Some(text)]
    IN  IF frame.idx < Len(rt.participants)
        THEN [stored EXCEPT !.pc = "turn", !.idx = frame.idx + 1]
        ELSE AfterRound([stored EXCEPT !.discussion.rounds =
                            Append(@, round_data)], frame.round_num)

(* The log is capped at max_rounds entries. *)
LoggedUpToMaxRounds(participant, text) ==
    IF Len(participant.contributions) < rt.max_rounds
    THEN [participant EXCEPT !.contributions = Append(@, text)]
    ELSE participant

(* The log keeps the latest answer only. *)
LoggedLatest(participant, text) ==
    [participant EXCEPT !.contributions = << text >>]

(* participant.contributions.append(contribution) *)
Logged(participant, text) ==
    [participant EXCEPT !.contributions = Append(@, text)]

(* Every advertised tool is run on the answer. *)
ToolsRunAll(tools, text) ==
    [i \in 1..Len(ToolsOf(tools)) |-> ToolsOf(tools)[i].func]

(* The tool functions the rest of the turn calls with the answer: the    *)
(* answer is only stored, whatever it says and whatever tools are loaded. *)
ToolsRun(tools, text) == << >>

(* The participant's model answers: response.content is text. *)
Return(c) ==
    /\ calls[c].pc = "await"
    /\ \E text \in Texts :
          LET frame == calls[c]
              participant == rt.participants[frame.idx]
          IN  /\ rt' = [rt EXCEPT !.participants[frame.idx] = Logged(@, text)]
              /\ calls' = [calls EXCEPT ![c] = Stored(frame, participant, text)]
              /\ ran' = ran \o ToolsRun(rt.tools, text)
    /\ UNCHANGED <<env, sent, out>>

(* The exception is caught and the record built so far is returned. *)
RaisedCaught(frame) ==
    [frame EXCEPT !.pc = "returned", !.result = Some(frame.discussion)]

(* A model call raises: nothing in discuss catches it. *)
Raised(frame) == [frame EXCEPT !.pc = "raised"]

(* The entries the failing call appended are taken off the logs again. *)
RolledBack(participants, frame) ==
    [i \in DOMAIN participants |->
        LET appended == Len(frame.discussion.rounds)
                        + (IF Len(frame.discussion.rounds) < frame.round_num
                              /\ i \in DOMAIN frame.round_data.contributions
                           THEN 1 ELSE 0)
            log == participants[i].contributions
        IN  [participants[i] EXCEPT !.contributions =
                SubSeq(log, 1, Len(log) - appended)]]

(* self.participants once the exception has left discuss: no except or   *)
(* finally clause lies on its way, so the logs are as the call left them. *)
Kept(participants, frame) == participants

Fail(c) ==
    /\ calls[c].pc \in {"await", "await_mod"}
    /\ calls' = [calls EXCEPT ![c] = Raised(calls[c])]
    /\ rt' = [rt EXCEPT !.participants = Kept(@, calls[c])]
    /\ UNCHANGED <<env, sent, ran, out>>

(* _generate_summary up to the moderator's blocking call. *)
InvokeModerator(c) ==
    /\ calls[c].pc = "summary"
    /\ LET frame == calls[c]
       IN  IF IsNone(rt.moderator)
           THEN /\ calls' = [calls EXCEPT ![c] =
                       [frame EXCEPT !.pc = "returned",
                                     !.discussion.final_summary = Some(""),
                                     !.result = Some([frame.discussion EXCEPT
                                                  !.final_summary = Some("")])]]
                /\ sent' = sent
           ELSE /\ calls' = [calls EXCEPT ![c] =
                       [frame EXCEPT !.pc = "await_mod",
                                     !.prompt = SummaryPrompt(frame.discussion)]]
                /\ sent' = Append(sent, [to |-> "Moderator", call |-> c,
                                         round |-> frame.round_num])
    /\ UNCHANGED <<env, rt, ran, out>>

(* An empty answer is stored as no summary. *)
SummaryOrNone(text) == IF text = "" THEN None ELSE Some(text)

(* What discuss stores of the moderator's answer. *)
Summary(text) == Some(text)

ReturnModerator(c) ==
    /\ calls[c].pc = "await_mod"
    /\ \E text \in Texts :
          LET frame == calls[c]
              discussion == [frame.discussion EXCEPT
                                !.final_summary = Summary(text)]
          IN  calls' = [calls EXCEPT ![c] =
                           [frame EXCEPT !.pc = "returned",
                                         !.response = Some(text),
                                         !.discussion = discussion,
                                         !.result = Some(discussion)]]
    /\ UNCHANGED <<env, rt, sent, ran, out>>

-----------------------------------------------------------------------------
(* src/roundtable.py: export_discussion *)

(* bool(discussion.final_summary): None and "" are falsy. *)
HasSummary(discussion) ==
    ~IsNone(discussion.final_summary) /\ The(discussion.final_summary) /= ""

(* A contribution with an empty text gets no block. *)
RECURSIVE MarkdownBlocksNonEmpty(_)
MarkdownBlocksNonEmpty(contributions) ==
    IF contributions = << >> THEN << >>
    ELSE LET contrib == Head(contributions)
         IN  (IF contrib.text = "" THEN << >>
              ELSE << "\n**" \o contrib.participant \o "** (" \o contrib.model \o "):\n",
                      contrib.text \o "\n" >>)
             \o MarkdownBlocksNonEmpty(Tail(contributions))

RECURSIVE MarkdownBlocks(_)
MarkdownBlocks(contributions) ==
    IF contributions = << >> THEN << >>
    ELSE LET contrib == Head(contributions)
         IN  << "\n**" \o contrib.participant \o "** (" \o contrib.model \o "):\n",
                contrib.text \o "\n" >>
             \o MarkdownBlocks(Tail(contributions))

RECURSIVE MarkdownRounds(_)
MarkdownRounds(rounds) ==
    IF rounds = << >> THEN << >>
    ELSE << "\n### Round " \o ToString(Head(rounds).round_number) \o "\n" >>
         \o MarkdownBlocks(Head(rounds).contributions)
         \o MarkdownRounds(Tail(rounds))

(* _export_markdown: the lines that are joined. *)
ExportMarkdown(discussion) ==
    << "# Roundtable Discussion\n", "## Question\n",
       discussion.question \o "\n", "\n## Discussion\n" >>
    \o MarkdownRounds(discussion.rounds)
    \o (IF HasSummary(discussion)
        THEN << "\n## Final Summary\n", The(discussion.final_summary) \o "\n" >>
        ELSE << >>)

RECURSIVE TextBlocks(_)
TextBlocks(contributions) ==
    IF contributions = << >> THEN << >>
    ELSE LET contrib == Head(contributions)
         IN  << contrib.participant \o " (" \o contrib.model \o "):",
                contrib.text \o "\n" >>
             \o TextBlocks(Tail(contributions))

RECURSIVE TextRounds(_)
TextRounds(rounds) ==
    IF rounds = << >> THEN << >>
    ELSE << "\n--- Round " \o ToString(Head(rounds).round_number) \o " ---\n" >>
         \o TextBlocks(Head(rounds).contributions)
         \o TextRounds(Tail(rounds))

(* ch * 80 *)
RECURSIVE Repeat(_, _)
Repeat(ch, n) == IF n = 0 THEN "" ELSE ch \o Repeat(ch, n - 1)

Rule(ch) == Repeat(ch, 80)

(* _export_text: the lines that are joined. *)
ExportText(discussion) ==
    << "ROUNDTABLE DISCUSSION", Rule("="),
       "\nQuestion: " \o discussion.question \o "\n" >>
    \o TextRounds(discussion.rounds)
    \o (IF HasSummary(discussion)
        THEN << "\n" \o Rule("-"), "FINAL SUMMARY:", Rule("-"),
                The(discussion.final_summary) \o "\n" >>
        ELSE << >>)

(* json.dumps: the JSON text as the sequence of its tokens. *)
Tok(type, str, num) == [type |-> type, str |-> str, num |-> num]
Punct(ch) == Tok(ch, "", 0)

DumpsStr(s) == << Tok("string", s, 0) >>
DumpsInt(n) == << Tok("number", "", n) >>
DumpsNone == << Tok("null", "", 0) >>

RECURSIVE Separated(_)
Separated(items) ==
    IF items = << >> THEN << >>
    ELSE IF Len(items) = 1 THEN Head(items)
    ELSE Head(items) \o << Punct(",") >> \o Separated(Tail(items))

DumpsList(items) == << Punct("[") >> \o Separated(items) \o << Punct("]") >>

Member(key, value) == DumpsStr(key) \o << Punct(":") >> \o value

DumpsDict(members) == << Punct("{") >> \o Separated(members) \o << Punct("}") >>

(* None is written as the string "None", as json.dumps(default=str) would. *)
DumpsOptionalAsStr(o) == IF IsNone(o) THEN DumpsStr("None") ELSE DumpsStr(The(o))

(* An Optional[str] attribute: None is written null. *)
DumpsOptional(o) == IF IsNone(o) THEN DumpsNone ELSE DumpsStr(The(o))

DumpsContribution(contrib) ==
    DumpsDict(<< Member("participant", DumpsStr(contrib.participant)),
                 Member("model", DumpsStr(contrib.model)),
                 Member("text", DumpsStr(contrib.text)) >>)

DumpsRound(round_data) ==
    DumpsDict(<< Member("round_number", DumpsInt(round_data.round_number)),
                 Member("contributions",
                        DumpsList([i \in DOMAIN round_data.contributions |->
                            DumpsContribution(round_data.contributions[i])])) >>)

(* json.dumps(discussion.__dict__, indent=2) *)
JsonDumps(discussion) ==
    DumpsDict(<< Member("question", DumpsStr(discussion.question)),
                 Member("rounds",
                        DumpsList([i \in DOMAIN discussion.rounds |->
                            DumpsRound(discussion.rounds[i])])),
                 Member("final_summary",
                        DumpsOptional(discussion.final_summary)) >>)

Rendering(format, value) == [status |-> "ok", format |-> format, value |-> value]

ExportDiscussion(discussion, format) ==
    IF format = "markdown"
    THEN Rendering(format, ExportMarkdown(discussion))
    ELSE IF format = "json"
    THEN Rendering(format, JsonDumps(discussion))
    ELSE Rendering(format, ExportText(discussion))

(* The caller exports the record a discuss call returned. *)
Export(c) ==
    /\ calls[c].pc = "returned"
    /\ \E format \in Formats :
          out' = [call |-> c] @@ ExportDiscussion(The(calls[c].result), format)
    /\ UNCHANGED <<env, rt, calls, sent, ran>>

-----------------------------------------------------------------------------
(* Specifications *)

SetVars(S) == [k \in EnvKeys |-> IF k \in S THEN ValueOf(k) ELSE Unset]

(* Every environment over the keys. *)
AllEnvs == {SetVars(S) : S \in SUBSET EnvKeys}

(* The environments of the discussion runs: the first n numbered entries *)
(* complete, the default model and key set or not, no moderator triple   *)
(* (the moderator is then bound to the default triple).                  *)
MainEnv(n, default) ==
    SetVars(({"MODEL", "API_KEY"} \X (1..n))
            \cup (IF default THEN {"DEFAULT_MODEL", "DEFAULT_API_KEY"} \X {0}
                  ELSE {}))

MainEnvs == {MainEnv(n, default) : n \in 0..MaxParticipants, default \in BOOLEAN}

NoOutput == [call |-> 0, status |-> "none", format |-> "", value |-> << >>]

Init ==
    /\ env \in MainEnvs
    /\ rt = NewRt
    /\ calls = << >>
    /\ sent = << >>
    /\ ran = << >>
    /\ out = NoOutput

Next ==
    \/ \E max_rounds \in 0..MaxRounds : Construct(max_rounds)
    \/ StartDiscuss
    \/ \E c \in DOMAIN calls : Invoke(c)
    \/ \E c \in DOMAIN calls : Return(c)
    \/ \E c \in DOMAIN calls : Fail(c)
    \/ \E c \in DOMAIN calls : InvokeModerator(c)
    \/ \E c \in DOMAIN calls : ReturnModerator(c)
    \/ \E c \in DOMAIN calls : Export(c)

Spec == Init /\ [][Next]_vars

(* Construction alone, under every environment. *)
InitConfig ==
    /\ env \in AllEnvs
    /\ rt = NewRt
    /\ calls = << >>
    /\ sent = << >>
    /\ ran = << >>
    /\ out = NoOutput

(* max_rounds is only stored by __init__: one value is constructed with. *)
NextConfig == \E max_rounds \in {MaxRounds} : Construct(max_rounds)

SpecConfig == InitConfig /\ [][NextConfig]_vars

(* Two threads share an orchestrator that was constructed with one       *)
(* numbered participant and the default triple set, the tools off, the   *)
(* moderator enabled or not.                                             *)
InitConcurrent ==
    /\ env = MainEnv(1, TRUE)
    /\ \E temperature \in Temperatures, moderator_enabled \in BOOLEAN :
          rt = Constructed(env, MaxRounds, temperature, moderator_enabled,
                           FALSE, None)
    /\ calls = << >>
    /\ sent = << >>
    /\ ran = << >>
    /\ out = NoOutput

NextConcurrent ==
    \/ StartConcurrent
    \/ \E c \in DOMAIN calls : Invoke(c)
    \/ \E c \in DOMAIN calls : Return(c)
    \/ \E c \in DOMAIN calls : Fail(c)
    \/ \E c \in DOMAIN calls : InvokeModerator(c)
    \/ \E c \in DOMAIN calls : ReturnModerator(c)

SpecConcurrent == InitConcurrent /\ [][NextConcurrent]_vars

(* One caller calls discuss up to MaxCalls times, one call after the     *)
(* other, on an orchestrator constructed as in InitConcurrent.           *)
InitSequential ==
    /\ env = MainEnv(1, TRUE)
    /\ \E temperature \in Temperatures, moderator_enabled \in BOOLEAN :
          rt = Constructed(env, MaxRounds, temperature, moderator_enabled,
                           FALSE, None)
    /\ calls = << >>
    /\ sent = << >>
    /\ ran = << >>
    /\ out = NoOutput

NextSequential ==
    \/ StartSequential
    \/ \E c \in DOMAIN calls : Invoke(c)
    \/ \E c \in DOMAIN calls : Return(c)
    \/ \E c \in DOMAIN calls : Fail(c)
    \/ \E c \in DOMAIN calls : InvokeModerator(c)
    \/ \E c \in DOMAIN calls : ReturnModerator(c)

SpecSequential == InitSequential /\ [][NextSequential]_vars

(* One discuss call of MaxRounds + 1 rounds on an orchestrator that was   *)
(* constructed with MaxParticipants numbered participants and the tools  *)
(* off: a call in which a round has two rounds before it.                *)
InitLong ==
    /\ env = MainEnv(MaxParticipants, TRUE)
    /\ \E temperature \in Temperatures, moderator_enabled \in BOOLEAN :
          rt = Constructed(env, MaxRounds + 1, temperature, moderator_enabled,
                           FALSE, None)
    /\ calls = << >>
    /\ sent = << >>
    /\ ran = << >>
    /\ out = NoOutput

NextLong ==
    \/ StartDiscuss
    \/ \E c \in DOMAIN calls : Invoke(c)
    \/ \E c \in DOMAIN calls : Return(c)
    \/ \E c \in DOMAIN calls : Fail(c)
    \/ \E c \in DOMAIN calls : InvokeModerator(c)
    \/ \E c \in DOMAIN calls : ReturnModerator(c)

SpecLong == InitLong /\ [][NextLong]_vars

-----------------------------------------------------------------------------
(* Properties of Roundtable.discuss *)

Returned(c) == calls[c].pc = "returned"
Record(c) == The(calls[c].result)
Labels == [i \in 1..Len(rt.participants) |-> rt.participants[i].label]

(* C1: with max_rounds = N >= 1, the record discuss returns has exactly N *)
(* rounds and the round_number of the r-th round is r.                    *)
C1_RoundsNumbered ==
    \A c \in DOMAIN calls :
        Returned(c) /\ rt.max_rounds >= 1 =>
            /\ ~IsNone(calls[c].result)
            /\ Len(Record(c).rounds) = rt.max_rounds
            /\ \A r \in 1..Len(Record(c).rounds) :
                   Record(c).rounds[r].round_number = r

C1_Witness ==
    \E c \in DOMAIN calls :
        /\ Returned(c)
        /\ rt.max_rounds = MaxRounds
        /\ Len(rt.participants) = MaxParticipants
        /\ Len(Record(c).rounds) = MaxRounds

(* The entries a context can hold for a contribution labelled label. *)
EntriesOf(label) ==
    {Entry([participant |-> label, text |-> text]) : text \in Texts}

Parts(seq) == {seq[i] : i \in DOMAIN seq}

(* C2: while a participant's call is in flight, neither the context built *)
(* for it nor the prompt sent to it holds an entry labelled with that     *)
(* participant's own label.                                               *)
C2_OwnTextExcluded ==
    \A c \in DOMAIN calls :
        calls[c].pc = "await" =>
            LET own == EntriesOf(rt.participants[calls[c].idx].label)
            IN  /\ Parts(calls[c].context) \cap own = {}
                /\ Parts(calls[c].prompt[2].content) \cap own = {}

C2_Witness ==
    \E c \in DOMAIN calls :
        /\ calls[c].pc = "await"
        /\ calls[c].round_num >= 2
        /\ Len(rt.participants) >= 2
        /\ rt.participants[calls[c].idx].contributions /= << >>
        /\ calls[c].context /= << >>

(* The headers and entries of the rounds numbered below round_num. *)
EarlierParts(rounds, round_num) ==
    UNION {{RoundHeader(rounds[r].round_number)}
           \cup {Entry(rounds[r].contributions[i]) :
                    i \in DOMAIN rounds[r].contributions} :
           r \in {n \in DOMAIN rounds : rounds[n].round_number < round_num}}

C4_RoundsComplete ==
    \A c \in DOMAIN calls :
        \A r \in DOMAIN calls[c].discussion.rounds :
            LET contributions == calls[c].discussion.rounds[r].contributions
            IN  /\ Len(contributions) = Len(rt.participants)
                /\ [i \in DOMAIN contributions |-> contributions[i].participant]
                       = Labels

(* A round is being filled while the record holds a finished one. *)
C4_Witness ==
    \E c \in DOMAIN calls :
        /\ calls[c].pc = "await"
        /\ Len(rt.participants) >= 2
        /\ calls[c].discussion.rounds /= << >>
        /\ calls[c].round_data.contributions /= << >>
        /\ Len(calls[c].round_data.contributions) < Len(rt.participants)

(* C5: a returned record's final_summary is not None if and only if the   *)
(* moderator was enabled and the record has at least one round.           *)
C5_SummaryIffModeratorAndRound ==
    \A c \in DOMAIN calls :
        Returned(c) =>
            (~IsNone(Record(c).final_summary)
                <=> (rt.moderator_enabled /\ Len(Record(c).rounds) >= 1))

(* C6 as stated: with the moderator enabled and a round completed, the    *)
(* returned final_summary is a non-empty string, the moderator's answer.  *)
C6_SummaryNonEmpty ==
    \A c \in DOMAIN calls :
        Returned(c) /\ rt.moderator_enabled /\ Len(Record(c).rounds) >= 1 =>
            /\ Record(c).final_summary = calls[c].response
            /\ ~IsNone(Record(c).final_summary)
            /\ The(Record(c).final_summary) /= ""

(* C6 as amended: with the moderator enabled and a round completed, the   *)
(* returned final_summary is the moderator's answer, unmodified, empty    *)
(* when the answer is empty.                                              *)
C6_SummaryVerbatim ==
    \A c \in DOMAIN calls :
        Returned(c) /\ rt.moderator_enabled /\ Len(Record(c).rounds) >= 1 =>
            /\ ~IsNone(calls[c].response)
            /\ Record(c).final_summary = calls[c].response
            /\ sent[Len(sent)].to = "Moderator"

C6_Witness ==
    \E c \in DOMAIN calls :
        /\ Returned(c)
        /\ rt.moderator_enabled
        /\ Len(Record(c).rounds) >= 1
        /\ Record(c).final_summary = Some("X")

SentBy(c) == SelectSeq(sent, LAMBDA m : m.call = c)

(* C7: a failing model call leaves discuss raised with no record, and a   *)
(* raised discuss stays so and issues no further model call.              *)
C7_FailureAborts ==
    [][\A c \in DOMAIN calls :
          /\ Fail(c) => calls'[c].pc = "raised" /\ IsNone(calls'[c].result)
          /\ calls[c].pc = "raised" =>
                /\ IsNone(calls[c].result)
                /\ calls'[c] = calls[c]
                /\ SentBy(c)' = SentBy(c)]_vars

(* A participant call failed after a round had been completed. *)
C7_Witness ==
    \E c \in DOMAIN calls :
        /\ calls[c].pc = "raised"
        /\ calls[c].discussion.rounds /= << >>
        /\ sent[Len(sent)].to /= "Moderator"
        /\ IsNone(calls[c].result)

(* The log of participant i. *)
Log(i) == rt.participants[i].contributions

(* C13: when a discuss call on a fresh orchestrator with max_rounds = N   *)
(* has returned, the log of every participant has N entries and its r-th  *)
(* entry is the text of that participant's contribution in round r of the *)
(* returned record; while the call runs every step leaves a log as it is  *)
(* or appends one entry to it, and a participant's log holds one entry    *)
(* per round it has answered in.                                          *)
C13_LogMatchesRecord ==
    /\ [](\A c \in DOMAIN calls : \A i \in DOMAIN rt.participants :
             /\ Returned(c) =>
                   /\ Len(Log(i)) = rt.max_rounds
                   /\ \A r \in 1..Len(Log(i)) :
                          Log(i)[r] = Record(c).rounds[r].contributions[i].text
             /\ calls[c].pc \in {"turn", "await"} =>
                   Len(Log(i)) = IF i < calls[c].idx THEN calls[c].round_num
                                 ELSE calls[c].round_num - 1)
    /\ [][\A i \in DOMAIN rt.participants :
             \/ Log(i)' = Log(i)
             \/ \E text \in Texts : Log(i)' = Append(Log(i), text)]_vars

(* A returned call of several rounds, with logs whose entries differ from *)
(* round to round and from participant to participant.                    *)
C13_Witness ==
    \E c \in DOMAIN calls :
        /\ Returned(c)
        /\ rt.max_rounds = MaxRounds
        /\ Len(rt.participants) = MaxParticipants
        /\ Log(1) /= Log(MaxParticipants)
        /\ Log(1)[1] /= Log(1)[MaxRounds]

(* The contributions of a list of rounds, in round order and within a     *)
(* round in the order stored, as one list.                                *)
RECURSIVE Flat(_)
Flat(rounds) ==
    IF rounds = << >> THEN << >>
    ELSE Head(rounds).contributions \o Flat(Tail(rounds))

(* The labelled texts of the contributions of rounds that are not made by *)
(* label.                                                                 *)
LabelledOthers(rounds, label) ==
    LET others == SelectSeq(Flat(rounds), LAMBDA contrib : contrib.participant /= label)
    IN  [k \in DOMAIN others |->
            "\n" \o others[k].participant \o ": " \o others[k].text]

(* The parts of a context that are not round headers. *)
Entries(context) ==
    SelectSeq(context, LAMBDA part :
        part \notin {"\n--- Round " \o ToString(n) \o " ---" : n \in 1..(MaxRounds + 1)})

(* C18 as stated: in a round r >= 2 the entries of the context built for  *)
(* a participant are the labelled contributions of the other participants *)
(* in the rounds 1..r-1, in round order and within a round in             *)
(* registration order, and no more.                                       *)
C18_ContextIsEarlierRounds ==
    \A c \in DOMAIN calls :
        calls[c].pc = "await" /\ calls[c].round_num >= 2 =>
            Entries(calls[c].context)
                = LabelledOthers(calls[c].discussion.rounds,
                                 rt.participants[calls[c].idx].label)

(* C19: in a round r >= 2 the context built for a participant holds, in   *)
(* order, the labelled contributions of the other participants in the     *)
(* rounds before r-1 once, those of round r-1 once under its header and   *)
(* once more at the end of the context, after the round history.          *)
C19_LatestRoundTwice ==
    \A c \in DOMAIN calls :
        calls[c].pc = "await" /\ calls[c].round_num >= 2 =>
            LET label == rt.participants[calls[c].idx].label
                rounds == calls[c].discussion.rounds
                context == calls[c].context
                before == LabelledOthers(SubSeq(rounds, 1, Len(rounds) - 1), label)
                latest == LabelledOthers(<< rounds[Len(rounds)] >>, label)
            IN  /\ Len(rounds) = calls[c].round_num - 1
                /\ Entries(context) = before \o latest \o latest
                /\ SubSeq(context, Len(context) - Len(latest) + 1, Len(context))
                       = latest
                /\ Len(context) = Len(rounds) + Len(before) + 2 * Len(latest)

(* A context built in round 3: the other participant said "" in round 1   *)
(* and "X" in round 2; the context ends with the entry of round 2 twice.  *)
C19_Witness ==
    \E c \in DOMAIN calls :
        /\ calls[c].pc = "await"
        /\ calls[c].round_num = 3
        /\ calls[c].idx = 1
        /\ calls[c].discussion.rounds[1].contributions[2].text = ""
        /\ calls[c].discussion.rounds[2].contributions[2].text = "X"
        /\ Len(calls[c].context) >= 5
        /\ calls[c].context[Len(calls[c].context)] = "\nParticipant 2: X"
        /\ calls[c].context[Len(calls[c].context) - 1] = "\nParticipant 2: X"

(* The number of parts the rounds before the r-th take in a transcript:  *)
(* a header per round and one part per contribution.                     *)
RECURSIVE TranscriptBefore(_, _)
TranscriptBefore(rounds, r) ==
    IF r <= 1 THEN 0
    ELSE TranscriptBefore(rounds, r - 1) + 1 + Len(rounds[r - 1].contributions)

(* C20: the transcript in the prompt sent to the moderator holds, between *)
(* the "Discussion:" line and the closing request, for every round of the *)
(* record in order its header "--- Round r ---" followed by one entry     *)
(* "label: text" per participant in registration order, the participant's *)
(* own contribution of that round, and nothing else.                      *)
C20_TranscriptComplete ==
    \A c \in DOMAIN calls :
        calls[c].pc = "await_mod" =>
            LET rounds == calls[c].discussion.rounds
                content == calls[c].prompt[2].content
                transcript == SubSeq(content, 3, Len(content) - 1)
            IN  /\ content[2] = "Discussion:\n"
                /\ Len(rounds) = rt.max_rounds
                /\ Len(transcript) = TranscriptBefore(rounds, Len(rounds) + 1)
                /\ \A r \in DOMAIN rounds :
                       LET at == TranscriptBefore(rounds, r) + 1
                       IN  /\ transcript[at]
                                  = "\n--- Round " \o ToString(r) \o " ---"
                           /\ Len(rounds[r].contributions) = Len(rt.participants)
                           /\ \A i \in DOMAIN rt.participants :
                                  transcript[at + i]
                                      = "\n" \o rt.participants[i].label \o ": "
                                            \o rounds[r].contributions[i].text

(* The moderator's call is in flight after a discussion of several rounds *)
(* and participants whose first and last contributions differ.            *)
C20_Witness ==
    \E c \in DOMAIN calls :
        /\ calls[c].pc = "await_mod"
        /\ rt.max_rounds = MaxRounds
        /\ Len(rt.participants) = MaxParticipants
        /\ calls[c].discussion.rounds[1].contributions[1].text = "X"
        /\ calls[c].discussion.rounds[MaxRounds].contributions[MaxParticipants].text = ""
        /\ Len(calls[c].prompt[2].content) = 3 + MaxRounds * (MaxParticipants + 1)

(* The model calls a whole discuss call c issues: round by round one per *)
(* participant in registration order, then the moderator if enabled.     *)
CallsDue(c) ==
    LET P == Len(rt.participants)
    IN  [k \in 1..(rt.max_rounds * P) |->
            [to |-> "Participant " \o ToString(((k - 1) % P) + 1), call |-> c,
             round |-> ((k - 1) \div P) + 1]]
        \o (IF rt.moderator_enabled
            THEN << [to |-> "Moderator", call |-> c, round |-> rt.max_rounds] >>
            ELSE << >>)

(* The answers call c has received so far. *)
Received(c) ==
    LET rounds == calls[c].discussion.rounds
        done == [r \in DOMAIN rounds |-> Len(rounds[r].contributions)]
        Sum[n \in 0..Len(done)] == IF n = 0 THEN 0 ELSE Sum[n - 1] + done[n]
    IN  Sum[Len(done)]
        + (IF Len(rounds) < calls[c].round_num
           THEN Len(calls[c].round_data.contributions) ELSE 0)
        + (IF Returned(c) /\ rt.moderator_enabled THEN 1 ELSE 0)

(* C17: the model calls of a discuss call are at every moment the first   *)
(* ones of the N*P participant calls in round order and registration      *)
(* order followed by one moderator call if the moderator is enabled; a    *)
(* returned call has issued them all; and a call is issued only when      *)
(* every earlier one has been answered.                                   *)
C17_CallsInOrder ==
    \A c \in DOMAIN calls :
        LET issued == SentBy(c)
            due == CallsDue(c)
            waiting == calls[c].pc \in {"await", "await_mod", "raised"}
        IN  /\ Len(issued) <= Len(due)
            /\ issued = SubSeq(due, 1, Len(issued))
            /\ Returned(c) => issued = due
            /\ Len(issued) = Received(c) + (IF waiting THEN 1 ELSE 0)

(* A call of several rounds and participants has returned after the       *)
(* moderator's call.                                                      *)
C17_Witness ==
    \E c \in DOMAIN calls :
        /\ Returned(c)
        /\ rt.moderator_enabled
        /\ rt.max_rounds = MaxRounds
        /\ Len(rt.participants) = MaxParticipants
        /\ Len(SentBy(c)) = MaxRounds * MaxParticipants + 1
        /\ sent[Len(sent)].to = "Moderator"

(* The contributions participant i has made in call c so far: in the    *)
(* rounds of the record and in the round being filled.                   *)
Answered(c, i) ==
    Cardinality({r \in DOMAIN calls[c].discussion.rounds :
                    i \in DOMAIN calls[c].discussion.rounds[r].contributions})
    + (IF Len(calls[c].discussion.rounds) < calls[c].round_num
          /\ i \in DOMAIN calls[c].round_data.contributions
       THEN 1 ELSE 0)

RECURSIVE AnsweredUpTo(_, _)
AnsweredUpTo(n, i) ==
    IF n = 0 THEN 0 ELSE AnsweredUpTo(n - 1, i) + Answered(n, i)

(* The texts of participant i in a record, round by round. *)
TextsOf(record, i) ==
    [r \in DOMAIN record.rounds |-> record.rounds[r].contributions[i].text]

(* C14: the calls running on one orchestrator write to the same logs: a   *)
(* participant's log holds one entry for every answer it gave in any of   *)
(* the calls, so once a second call has stored an answer the log is       *)
(* longer than that participant's answers in either call, and when two    *)
(* calls have returned it equals neither record's texts of that           *)
(* participant round by round.                                            *)
C14_CallsShareLogs ==
    \A i \in DOMAIN rt.participants :
        /\ Len(Log(i)) = AnsweredUpTo(Len(calls), i)
        /\ \A c, d \in DOMAIN calls :
               /\ c /= d /\ Answered(c, i) > 0 /\ Answered(d, i) > 0
                      => Len(Log(i)) > Answered(c, i)
               /\ c /= d /\ Returned(c) /\ Returned(d)
                      => Log(i) /= TextsOf(Record(c), i)

(* Both calls have returned, the first with the answers "" and the second *)
(* with the answers "X" in every round: the log holds them alternating,   *)
(* an entry of the second call between two entries of the first.          *)
C14_Witness ==
    /\ Len(calls) = 2
    /\ Returned(1) /\ Returned(2)
    /\ TextsOf(Record(1), 1) = [r \in 1..rt.max_rounds |-> ""]
    /\ TextsOf(Record(2), 1) = [r \in 1..rt.max_rounds |-> "X"]
    /\ rt.max_rounds >= 2
    /\ Log(1)[1] = "" /\ Log(1)[2] = "X" /\ Log(1)[3] = ""

(* The last element of a non-empty sequence. *)
Last(seq) == seq[Len(seq)]

(* C21: a record belongs to its call. At every moment a returned record   *)
(* has N rounds of P contributions and the context of a call in flight is *)
(* made of the rounds of that call's own record, one header each. In      *)
(* every step at most one call's activation changes, a returned one never *)
(* does, the question of a record stays, and a record changes only by     *)
(* gaining the round its own call was filling, closed by the answer that  *)
(* the same step appends to the answering participant's log.              *)
C21_RecordOwnedByCall ==
    /\ [](\A c \in DOMAIN calls :
             /\ Returned(c) =>
                   /\ Record(c) = calls[c].discussion
                   /\ Len(Record(c).rounds) = rt.max_rounds
                   /\ \A r \in DOMAIN Record(c).rounds :
                          Len(Record(c).rounds[r].contributions)
                              = Len(rt.participants)
             /\ calls[c].pc = "await" =>
                   LET own == calls[c].discussion.rounds
                       label == rt.participants[calls[c].idx].label
                       context == calls[c].context
                   IN  /\ Len(own) = calls[c].round_num - 1
                       /\ Len(context) - Len(Entries(context)) = Len(own)
                       /\ Entries(context)
                              = LabelledOthers(own, label)
                                \o (IF own = << >> THEN << >>
                                    ELSE LabelledOthers(<< Last(own) >>, label)))
    /\ [][\A c \in DOMAIN calls :
             LET before == calls[c].discussion
                 after == calls'[c].discussion
             IN  /\ Returned(c) => calls'[c] = calls[c]
                 /\ calls'[c] /= calls[c] =>
                        \A d \in DOMAIN calls \ {c} : calls'[d] = calls[d]
                 /\ after.question = before.question
                 /\ \/ after.rounds = before.rounds
                    \/ /\ Len(after.rounds) = Len(before.rounds) + 1
                       /\ SubSeq(after.rounds, 1, Len(before.rounds))
                              = before.rounds
                       /\ calls[c].pc = "await"
                       /\ Last(after.rounds).round_number = calls[c].round_num
                       /\ Len(Last(after.rounds).contributions)
                              = Len(calls[c].round_data.contributions) + 1
                       /\ SubSeq(Last(after.rounds).contributions, 1,
                                 Len(calls[c].round_data.contributions))
                              = calls[c].round_data.contributions
                       /\ Last(Last(after.rounds).contributions).text
                              = Last(rt'.participants[calls[c].idx].contributions)]_vars

(* The first call has returned a record of answers "" and the second, in  *)
(* its last round, has filled its record with answers "X": the first      *)
(* record still reads "" in every round.                                  *)
C21_Witness ==
    /\ Len(calls) = 2
    /\ Returned(1)
    /\ calls[2].pc = "await"
    /\ calls[2].round_num = rt.max_rounds
    /\ rt.max_rounds >= 2
    /\ \A r \in DOMAIN calls[2].discussion.rounds :
           calls[2].discussion.rounds[r].contributions[1].text = "X"
    /\ \A r \in DOMAIN Record(1).rounds :
           Record(1).rounds[r].contributions[1].text = ""

(* The texts participant i has contributed in call c so far: in the       *)
(* rounds of the record, then in the round being filled.                  *)
SaidIn(c, i) ==
    TextsOf(calls[c].discussion, i)
    \o (IF Len(calls[c].discussion.rounds) < calls[c].round_num
           /\ i \in DOMAIN calls[c].round_data.contributions
        THEN << calls[c].round_data.contributions[i].text >> ELSE << >>)

RECURSIVE SaidUpTo(_, _)
SaidUpTo(n, i) == IF n = 0 THEN << >> ELSE SaidUpTo(n - 1, i) \o SaidIn(n, i)

(* C22: with discuss called k times one call after the other, the log of  *)
(* every participant is at every moment the concatenation, in call order, *)
(* of what it has contributed in each call; when the k calls have all     *)
(* returned it has k*N entries and each of the k records has N rounds.    *)
C22_LogsNeverReset ==
    \A i \in DOMAIN rt.participants :
        /\ Log(i) = SaidUpTo(Len(calls), i)
        /\ (\A c \in DOMAIN calls : Returned(c)) =>
              /\ Len(Log(i)) = Len(calls) * rt.max_rounds
              /\ \A c \in DOMAIN calls :
                     /\ Len(Record(c).rounds) = rt.max_rounds
                     /\ SubSeq(Log(i), (c - 1) * rt.max_rounds + 1,
                               c * rt.max_rounds)
                            = TextsOf(Record(c), i)

(* MaxCalls calls have returned; the first was answered "" throughout and *)
(* the last "X" throughout, and the log starts with the first call's      *)
(* entries and ends with the last call's.                                 *)
C22_Witness ==
    /\ Len(calls) = MaxCalls
    /\ \A c \in DOMAIN calls : Returned(c)
    /\ rt.max_rounds >= 2
    /\ TextsOf(Record(1), 1) = [r \in 1..rt.max_rounds |-> ""]
    /\ TextsOf(Record(MaxCalls), 1) = [r \in 1..rt.max_rounds |-> "X"]
    /\ Len(Log(1)) = MaxCalls * rt.max_rounds
    /\ Log(1)[1] = "" /\ Log(1)[Len(Log(1))] = "X"

(* C23: when the first discuss call on an orchestrator has raised, the    *)
(* logs keep what the call appended and no record is returned. If the     *)
(* call of participant j in round r failed, the participants before j     *)
(* have r entries and the others r-1; if the moderator's call failed,     *)
(* every participant has N entries. The entries are the texts the call    *)
(* had stored.                                                            *)
C23_NoRollback ==
    \A c \in DOMAIN calls :
        calls[c].pc = "raised" /\ Len(calls) = 1 =>
            LET j == calls[c].idx
                r == calls[c].round_num
                moderator == Last(SentBy(c)).to = "Moderator"
            IN  /\ IsNone(calls[c].result)
                /\ \A i \in DOMAIN rt.participants :
                       /\ Log(i) = SaidIn(c, i)
                       /\ moderator => Len(Log(i)) = rt.max_rounds
                       /\ ~moderator =>
                             Len(Log(i)) = IF i < j THEN r ELSE r - 1

(* The call of the last participant failed in the last round: the         *)
(* participants before it have one entry more than it has.                *)
C23_Witness ==
    \E c \in DOMAIN calls :
        /\ calls[c].pc = "raised"
        /\ Last(SentBy(c)).to /= "Moderator"
        /\ calls[c].round_num = MaxRounds
        /\ calls[c].idx = MaxParticipants
        /\ Len(Log(1)) = MaxRounds
        /\ Len(Log(MaxParticipants)) = MaxRounds - 1
        /\ Log(1)[MaxRounds] = "X"

-----------------------------------------------------------------------------
(* Properties of construction *)

(* C8: when the environment resolves no participant, construction fails   *)
(* with a ValueError whatever the moderator and tools flags, and no model *)
(* call has been issued.                                                  *)
C8_NoParticipantsFails ==
    rt.state /= "new" /\ GetParticipantModels(env) = << >> =>
        /\ rt.state = "failed"
        /\ rt.error \in {NoParticipantsError, ApiKeyError}
        /\ sent = << >>
        /\ calls = << >>

(* The moderator and the tools were set up, and the final check raised. *)
C8_Witness ==
    /\ rt.state = "failed"
    /\ rt.error = NoParticipantsError
    /\ GetParticipantModels(env) = << >>
    /\ rt.moderator_enabled
    /\ rt.tools_enabled
    /\ ~IsNone(rt.tools)

-----------------------------------------------------------------------------
(* Properties of export_discussion *)

SupportedFormats == {"markdown", "text", "json"}

(* C9: an export with a format other than markdown, text and json ends in *)
(* an error and yields no rendering.                                      *)
C9_UnsupportedFormatFails ==
    out.status /= "none" /\ out.format \notin SupportedFormats =>
        out.status = "error" /\ out.value = << >>

(* json.loads: the Python value a token sequence parses to *)

PyValue(kind, str, num, keys, items) ==
    [kind |-> kind, str |-> str, num |-> num, keys |-> keys, items |-> items]

RECURSIVE ParseValue(_, _), ParseElements(_, _, _), ParseMembers(_, _, _, _)

(* The value that starts at token i, and the index after it. *)
ParseValue(toks, i) ==
    LET tok == toks[i]
    IN  CASE tok.type = "string" ->
               [v |-> PyValue("str", tok.str, 0, << >>, << >>), next |-> i + 1]
          [] tok.type = "number" ->
               [v |-> PyValue("int", "", tok.num, << >>, << >>), next |-> i + 1]
          [] tok.type = "null" ->
               [v |-> PyValue("None", "", 0, << >>, << >>), next |-> i + 1]
          [] tok.type = "[" ->
               IF toks[i + 1].type = "]"
               THEN [v |-> PyValue("list", "", 0, << >>, << >>), next |-> i + 2]
               ELSE ParseElements(toks, i + 1, << >>)
          [] tok.type = "{" ->
               IF toks[i + 1].type = "}"
               THEN [v |-> PyValue("dict", "", 0, << >>, << >>), next |-> i + 2]
               ELSE ParseMembers(toks, i + 1, << >>, << >>)

ParseElements(toks, i, items) ==
    LET e == ParseValue(toks, i)
    IN  IF toks[e.next].type = ","
        THEN ParseElements(toks, e.next + 1, Append(items, e.v))
        ELSE [v |-> PyValue("list", "", 0, << >>, Append(items, e.v)),
              next |-> e.next + 1]

ParseMembers(toks, i, keys, items) ==
    LET e == ParseValue(toks, i + 2)
    IN  IF toks[e.next].type = ","
        THEN ParseMembers(toks, e.next + 1, Append(keys, toks[i].str),
                          Append(items, e.v))
        ELSE [v |-> PyValue("dict", "", 0, Append(keys, toks[i].str),
                            Append(items, e.v)),
              next |-> e.next + 1]

JsonLoads(toks) == ParseValue(toks, 1).v

(* d[key] of a parsed dict. *)
Item(d, key) == d.items[CHOOSE i \in DOMAIN d.keys : d.keys[i] = key]

(* C10: the json export of a returned record parses back to a dict with   *)
(* the record's question, as many rounds, as many contributions in each   *)
(* round, and the record's final_summary (None for None).                 *)
C10_JsonRoundTrip ==
    out.status = "ok" /\ out.format = "json" =>
        LET discussion == Record(out.call)
            parsed == JsonLoads(out.value)
            rounds == Item(parsed, "rounds")
            summary == Item(parsed, "final_summary")
        IN  /\ parsed.kind = "dict"
            /\ parsed.keys = << "question", "rounds", "final_summary" >>
            /\ Item(parsed, "question").kind = "str"
            /\ Item(parsed, "question").str = discussion.question
            /\ rounds.kind = "list"
            /\ Len(rounds.items) = Len(discussion.rounds)
            /\ \A r \in DOMAIN discussion.rounds :
                   /\ Item(rounds.items[r], "round_number").num
                          = discussion.rounds[r].round_number
                   /\ Len(Item(rounds.items[r], "contributions").items)
                          = Len(discussion.rounds[r].contributions)
            /\ IF IsNone(discussion.final_summary)
               THEN summary.kind = "None"
               ELSE summary.kind = "str"
                    /\ summary.str = The(discussion.final_summary)

(* json exports of a record without a summary and of one with rounds and  *)
(* a summary.                                                             *)
C10_Witness ==
    /\ out.status = "ok"
    /\ out.format = "json"
    /\ Len(Record(out.call).rounds) = MaxRounds
    /\ Len(rt.participants) = MaxParticipants
    /\ Record(out.call).final_summary = Some("X")

(* The number of parts the rounds before the r-th take in the markdown    *)
(* export: a heading per round and two parts per contribution.            *)
RECURSIVE PartsBefore(_, _)
PartsBefore(rounds, r) ==
    IF r <= 1 THEN 0
    ELSE PartsBefore(rounds, r - 1) + 1 + 2 * Len(rounds[r - 1].contributions)

(* C11: the markdown export of a record holds the question, and between   *)
(* the "Discussion" heading and the optional summary section exactly one  *)
(* heading per round, in round order, each followed by exactly one block  *)
(* (label, model, text) per contribution of that round, in contribution   *)
(* order, and nothing else.                                               *)
C11_MarkdownBlocks ==
    out.status = "ok" /\ out.format = "markdown" =>
        LET discussion == Record(out.call)
            rounds == discussion.rounds
            trailer == IF HasSummary(discussion) THEN 2 ELSE 0
            body == SubSeq(out.value, 5, Len(out.value) - trailer)
        IN  /\ out.value[3] = discussion.question \o "\n"
            /\ Len(body) = PartsBefore(rounds, Len(rounds) + 1)
            /\ \A r \in DOMAIN rounds :
                   LET at == PartsBefore(rounds, r) + 1
                   IN  /\ body[at] = "\n### Round "
                                        \o ToString(rounds[r].round_number) \o "\n"
                       /\ \A i \in DOMAIN rounds[r].contributions :
                              LET contrib == rounds[r].contributions[i]
                              IN  /\ body[at + 2 * i - 1]
                                         = "\n**" \o contrib.participant \o "** ("
                                               \o contrib.model \o "):\n"
                                  /\ body[at + 2 * i] = contrib.text \o "\n"

(* A markdown export of a record of several rounds and participants, one  *)
(* of whose contributions is empty, with a summary section after it.      *)
C11_Witness ==
    /\ out.status = "ok"
    /\ out.format = "markdown"
    /\ Len(Record(out.call).rounds) = MaxRounds
    /\ Len(rt.participants) = MaxParticipants
    /\ Record(out.call).rounds[1].contributions[1].text = ""
    /\ Record(out.call).rounds[MaxRounds].contributions[MaxParticipants].text = "X"
    /\ HasSummary(Record(out.call))

-----------------------------------------------------------------------------
(* Properties of the tools *)

(* The lines a list of tools adds to the system message. *)
ToolLines(listed) ==
    IF listed = << >> THEN << >>
    ELSE << "\n\nAvailable tools for research:\n" >>
         \o [i \in 1..Len(listed) |->
                "- " \o listed[i].name \o ": " \o listed[i].description \o "\n"]

(* C12: no tool function has been called, at any moment of construction,  *)
(* discuss and export; a participant's prompt differs from the prompt     *)
(* built without tools only by the name/description lines after its       *)
(* system message, and the moderator's prompt holds no such line.         *)
C12_ToolsNeverCalled ==
    /\ ran = << >>
    /\ \A c \in DOMAIN calls :
           /\ calls[c].pc = "await" =>
                 LET plain == CreateParticipantPrompt(None,
                                  calls[c].discussion.question,
                                  calls[c].round_num, calls[c].context)
                 IN  /\ calls[c].prompt[1].content
                            = plain[1].content \o ToolLines(ToolsOf(rt.tools))
                     /\ calls[c].prompt[2] = plain[2]
           /\ calls[c].pc = "await_mod" =>
                 \A m \in DOMAIN calls[c].prompt :
                     Parts(calls[c].prompt[m].content)
                         \cap Parts(ToolLines(<<WikipediaTool, ArxivTool>>)) = {}

(* Tools are loaded, a participant has answered, and the next prompt,     *)
(* which lists the tools, is in flight.                                   *)
C12_Witness ==
    \E c \in DOMAIN calls :
        /\ calls[c].pc = "await"
        /\ rt.tools_enabled
        /\ ToolsOf(rt.tools) /= << >>
        /\ calls[c].round_num >= 2
        /\ Len(calls[c].prompt[1].content) = 2 + Len(ToolsOf(rt.tools))
        /\ rt.participants[1].contributions /= << >>

-----------------------------------------------------------------------------
(* Properties of the endpoint configuration *)

IsSet(e, name, i) == e[Key(name, i)] /= Unset

(* The indices up to which every numbered entry has a model and a key. *)
Unbroken(e) ==
    {i \in 1..MaxParticipants :
        \A j \in 1..i : IsSet(e, "MODEL", j) /\ IsSet(e, "API_KEY", j)}

(* C15: the participants of a constructed orchestrator are the numbered   *)
(* entries 1..k, k the last index before the first entry without a model  *)
(* or a key, in that order, bound to their own model and key and labelled *)
(* "Participant 1".."Participant k"; with k = 0 the only participant is   *)
(* the default model with the default key, labelled "Participant 1"; the  *)
(* labels are distinct.                                                   *)
C15_ParticipantsResolved ==
    rt.state /= "new" =>
        LET k == Cardinality(Unbroken(env))
            ps == rt.participants
        IN  /\ k >= 1 =>
                  /\ Len(ps) = k
                  /\ \A i \in 1..k :
                         /\ ps[i].name = env[Key("MODEL", i)]
                         /\ ps[i].llm.model = env[Key("MODEL", i)]
                         /\ ps[i].llm.api_key = env[Key("API_KEY", i)]
                         /\ ps[i].label = "Participant " \o ToString(i)
            /\ k = 0 /\ ps /= << >> =>
                  /\ Len(ps) = 1
                  /\ ps[1].name = env[Key("DEFAULT_MODEL", 0)]
                  /\ ps[1].llm.model = env[Key("DEFAULT_MODEL", 0)]
                  /\ ps[1].llm.api_key = env[Key("DEFAULT_API_KEY", 0)]
                  /\ ps[1].label = "Participant 1"
            /\ k = 0 /\ rt.state = "ready" =>
                  /\ ps /= << >>
                  /\ IsSet(env, "DEFAULT_MODEL", 0)
                  /\ IsSet(env, "DEFAULT_API_KEY", 0)
            /\ \A i, j \in DOMAIN ps : i /= j => ps[i].label /= ps[j].label

(* Entry 1 lacks its key and entry 2 is complete: entry 2 is ignored and  *)
(* the default triple is the one participant.                             *)
C15_Witness ==
    /\ rt.state = "ready"
    /\ IsSet(env, "MODEL", 1) /\ ~IsSet(env, "API_KEY", 1)
    /\ IsSet(env, "MODEL", 2) /\ IsSet(env, "API_KEY", 2)
    /\ Len(rt.participants) = 1
    /\ rt.participants[1].name = ValueOf(Key("DEFAULT_MODEL", 0))

(* The value of a variable, or the default written in the code. *)
SetOr(e, name, default) ==
    IF IsSet(e, name, 0) THEN e[Key(name, 0)] ELSE default

(* C16: with the moderator enabled, when MODERATOR_MODEL or               *)
(* MODERATOR_API_KEY is missing the moderator client has the default      *)
(* model, key and base URL and none of the moderator's values; when both  *)
(* are set it has the moderator's model and key; when no key results      *)
(* construction has failed with no moderator client, no discuss call and  *)
(* no model call. With the moderator disabled there is no client.         *)
C16_ModeratorBinding ==
    rt.state /= "new" =>
        LET own == IsSet(env, "MODERATOR_MODEL", 0)
                   /\ IsSet(env, "MODERATOR_API_KEY", 0)
        IN  /\ ~rt.moderator_enabled => IsNone(rt.moderator)
            /\ rt.moderator_enabled /\ own =>
                  /\ ~IsNone(rt.moderator)
                  /\ The(rt.moderator).model = env[Key("MODERATOR_MODEL", 0)]
                  /\ The(rt.moderator).api_key = env[Key("MODERATOR_API_KEY", 0)]
            /\ rt.moderator_enabled /\ ~own /\ IsSet(env, "DEFAULT_API_KEY", 0) =>
                  /\ ~IsNone(rt.moderator)
                  /\ The(rt.moderator).model
                         = SetOr(env, "DEFAULT_MODEL", "gpt-4o")
                  /\ The(rt.moderator).api_key = env[Key("DEFAULT_API_KEY", 0)]
                  /\ The(rt.moderator).base_url
                         = SetOr(env, "DEFAULT_BASE_URL", "https://api.openai.com/v1")
            /\ rt.moderator_enabled /\ ~own /\ ~IsSet(env, "DEFAULT_API_KEY", 0) =>
                  /\ rt.state = "failed"
                  /\ rt.error = "ValueError: API key not provided"
                  /\ IsNone(rt.moderator)
                  /\ calls = << >> /\ sent = << >>

(* The moderator's model and base URL are set and its key is not: the     *)
(* client is the default one, with none of the two values.                *)
C16_Witness ==
    /\ rt.state = "ready"
    /\ rt.moderator_enabled
    /\ IsSet(env, "MODERATOR_MODEL", 0)
    /\ ~IsSet(env, "MODERATOR_API_KEY", 0)
    /\ IsSet(env, "MODERATOR_BASE_URL", 0)
    /\ IsSet(env, "DEFAULT_BASE_URL", 0)
    /\ The(rt.moderator).model = "gpt-4o"
    /\ The(rt.moderator).base_url = ValueOf(Key("DEFAULT_BASE_URL", 0))

====
